---- MODULE Spec2Model ----
(***************************************************************************)
(* BridgeConverter::convert of engine/src/conversion/mod.rs: the driver    *)
(* that takes a bindgen-generated module through structural normalization, *)
(* by-value-safety identification, parsing, POD analysis, function         *)
(* analysis, garbage collection, ctype appending and the two code          *)
(* generators.                                                             *)
(*                                                                         *)
(* The driver and find_items_in_root are translated from mod.rs.  The      *)
(* stages it calls live in sibling modules (analysis::gc, analysis::pod,   *)
(* analysis::fun, analysis::ctypes, parse, codegen_cpp, codegen_rs); they  *)
(* are modelled from the specification's description of their contracts.   *)
(* A fallible stage whose failure condition depends on data the model does *)
(* not carry returns Ok or its error nondeterministically.                 *)
(***************************************************************************)
EXTENDS Naturals, Sequences, FiniteSets, TLC

VARIABLES
    bindgen_mod,        \* the ItemMod argument of convert (content is drained)
    type_database,      \* self.type_database: allow-list and exclusion directives
    input,              \* history: bindgen_mod.content as convert received it
    pc,                 \* position of convert
    items_to_process,   \* mod.rs:89
    items_in_root,      \* mod.rs:91
    byvalue_checker,    \* mod.rs:94
    parse_results,      \* mod.rs:100
    analyzed_apis,      \* mod.rs:104, 109, 117 (the same name, shadowed)
    cpp,                \* mod.rs:125
    rs,                 \* mod.rs:126
    result,             \* what convert returned
    trace               \* history: the stages executed, each with its outcome

vars == <<bindgen_mod, type_database, input, pc, items_to_process, items_in_root,
          byvalue_checker, parse_results, analyzed_apis, cpp, rs, result, trace>>

----------------------------------------------------------------------------
(* Bounds of the explored inputs *)

\* longest top-level item list of the bindgen mod
MaxItems == 2
\* most dependency edges leaving one declaration
MaxDeps == 2

\* identifiers of the declarations inside the root mod
ApiNames == {"A", "B", "C"}
\* variably-sized C types a declaration may mention
CTypes == {"c_int"}
\* an allow-list entry naming a symbol that was never declared
GhostName == "Z"

----------------------------------------------------------------------------
(* Values *)

None == [some |-> FALSE, items |-> <<>>]
Some(x) == [some |-> TRUE, items |-> x]

\* syn::Item: Item::Mod with its ident and content, or any other variant
ModItem(ident, content) == [kind |-> "Mod", ident |-> ident, content |-> content]
OtherItem == [kind |-> "Other", ident |-> "", content |-> None]

\* Result<_, ConvertError>, and the unwinding of a failed assert!
Ok(v) == [tag |-> "Ok", val |-> v, err |-> ""]
Err(e) == [tag |-> "Err", val |-> <<>>, err |-> e]
Panic == [tag |-> "Panic", val |-> <<>>, err |-> ""]
Running == [tag |-> "Running", val |-> <<>>, err |-> ""]

\* a raw declaration inside the root mod: its identifier and the types it mentions
Decl(n, d) == [name |-> n, deps |-> d]

\* an Api of the internal model
Api(n, d, s, a, k) == [name |-> n, deps |-> d, safety |-> s, analysis |-> a, kind |-> k]

NotProduced == [produced |-> FALSE, some |-> FALSE, items |-> {}]
Produced(opt, items) == [produced |-> TRUE, some |-> opt, items |-> items]

Entry(stage, outcome) == [stage |-> stage, outcome |-> outcome]

StageOrder ==
    << "content_check", "find_items_in_root", "identify_byvalue_safe_types",
       "convert_items", "analyze_pod_apis", "analyze_functions",
       "filter_apis_by_following_edges_from_allowlist",
       "append_ctype_information", "generate_cpp_code", "generate_rs_code" >>

Names(apis) == {a.name : a \in apis}
Stages == {trace[i].stage : i \in 1..Len(trace)}
Ran(stage) == stage \in Stages

----------------------------------------------------------------------------
(* find_items_in_root, mod.rs:137-153 *)

\* the assertion replaced by an error return
RECURSIVE find_items_in_root_noassert(_)
find_items_in_root_noassert(items) ==
    IF items = <<>> THEN Ok(<<>>)
    ELSE LET item == Head(items) IN
         IF item.kind = "Mod"
         THEN IF item.ident # "root" THEN Err("UnexpectedOuterItem")
              ELSE IF item.content.some THEN Ok(item.content.items)
              ELSE find_items_in_root_noassert(Tail(items))
         ELSE Err("UnexpectedOuterItem")

\* the fall-through after the loop returning the error instead of Ok(Vec::new())
RECURSIVE find_items_in_root_emptyerr(_)
find_items_in_root_emptyerr(items) ==
    IF items = <<>> THEN Err("UnexpectedOuterItem")
    ELSE LET item == Head(items) IN
         IF item.kind = "Mod"
         THEN IF item.ident # "root" THEN Panic
              ELSE IF item.content.some THEN Ok(item.content.items)
              ELSE find_items_in_root_emptyerr(Tail(items))
         ELSE Err("UnexpectedOuterItem")

\* a root mod without content reported as NoContent instead of skipped
RECURSIVE find_items_in_root_nobody(_)
find_items_in_root_nobody(items) ==
    IF items = <<>> THEN Ok(<<>>)
    ELSE LET item == Head(items) IN
         IF item.kind = "Mod"
         THEN IF item.ident # "root" THEN Panic
              ELSE IF item.content.some THEN Ok(item.content.items)
              ELSE Err("NoContent")
         ELSE Err("UnexpectedOuterItem")

RECURSIVE find_items_in_root(_)
find_items_in_root(items) ==
    IF items = <<>> THEN Ok(<<>>)
    ELSE LET item == Head(items) IN
         IF item.kind = "Mod"
         THEN IF item.ident # "root" THEN Panic
              ELSE IF item.content.some THEN Ok(item.content.items)
              ELSE find_items_in_root(Tail(items))
         ELSE Err("UnexpectedOuterItem")

----------------------------------------------------------------------------
(* The stages convert calls, from their contracts *)

\* ParseBindgen::convert_items: one Api per raw declaration, not yet analysed
convert_items(items) ==
    {Api(items[i].name, items[i].deps, "PendingAnalysis", "Unanalyzed", "Decl") :
        i \in 1..Len(items)}

\* the by-value-safe identifiers: the least set of declarations all of whose
\* declared members are in it (a by-value cycle never enters)
RECURSIVE SafeNames(_, _, _)
SafeNames(apis, safe, k) ==
    IF k = 0 THEN safe
    ELSE SafeNames(apis,
                   {a.name : a \in {b \in apis : (b.deps \cap Names(apis)) \subseteq safe}},
                   k - 1)

\* analyze_pod_apis: every safety tag leaves PendingAnalysis for its final value
analyze_pod_apis(apis) ==
    LET safe == SafeNames(apis, {}, Cardinality(apis)) IN
    {[a EXCEPT !.safety = IF a.name \in safe THEN "ByValueSafe" ELSE "RequiresIndirection"] :
        a \in apis}

\* FnAnalyzer::analyze_functions: a wrapper is synthesized for a declaration that
\* touches a type requiring indirection; safety tags are read, not written
analyze_functions(apis) ==
    {[a EXCEPT !.analysis =
        IF \E b \in apis : b.name \in a.deps /\ b.safety = "RequiresIndirection"
        THEN "SynthesizedWrapper" ELSE "DirectPassthrough"] : a \in apis}

\* breadth-first traversal with a visited set
RECURSIVE follow_edges(_, _, _)
follow_edges(apis, todos, done) ==
    IF todos = {} THEN done
    ELSE LET found == {a \in apis : a.name \in todos}
             next == UNION {a.deps : a \in found}
         IN follow_edges(apis, next \ (done \cup todos), done \cup todos)

\* the excluded identifiers and, recursively, everything depending on them
RECURSIVE dropped_by_exclusion(_, _)
dropped_by_exclusion(apis, gone) ==
    LET more == {a.name : a \in {b \in apis : b.deps \cap gone # {}}} IN
    IF more \subseteq gone THEN gone
    ELSE dropped_by_exclusion(apis, gone \cup more)

\* an exclusion removing the excluded node alone, its dependents kept
filter_apis_keep_dependents(apis, tdb) ==
    LET visited == follow_edges(apis, tdb.allowlist, {}) IN
    {a \in apis : a.name \in visited \ tdb.exclusions}

\* filter_apis_by_following_edges_from_allowlist
filter_apis_by_following_edges_from_allowlist(apis, tdb) ==
    LET visited == follow_edges(apis, tdb.allowlist, {})
        gone == dropped_by_exclusion(apis, tdb.exclusions)
    IN {a \in apis : a.name \in visited \ gone}

\* analysis::ctypes::append_ctype_information
append_ctype_information(apis) ==
    LET ctypes == (UNION {a.deps : a \in apis}) \cap CTypes IN
    apis \cup {Api(c, {}, "ByValueSafe", "DirectPassthrough", "CType") :
                 c \in ctypes \ Names(apis)}

\* CppCodeGenerator::generate_cpp_code: absent when nothing needs native code
generate_cpp_code(apis) ==
    LET native == {a \in apis : a.kind = "CType" \/ a.analysis = "SynthesizedWrapper"} IN
    IF native = {} THEN Produced(FALSE, {}) ELSE Produced(TRUE, Names(apis))

\* RsCodeGenerator::generate_rs_code
generate_rs_code(apis) == Produced(TRUE, Names(apis))

----------------------------------------------------------------------------
(* Inputs *)

SeqsUpTo(S, n) == UNION {[1..k -> S] : k \in 0..n}

DepSets(n) ==
    {S \in SUBSET ((ApiNames \cup CTypes) \ {n}) : Cardinality(S) <= MaxDeps}

\* every declaration graph over ApiNames
GraphDecls ==
    {<<Decl("A", a), Decl("B", b), Decl("C", c)>> :
        a \in DepSets("A"), b \in DepSets("B"), c \in DepSets("C")}

\* the items that may stand at the top level of the bindgen mod
TopItems(d) ==
    {OtherItem} \cup
    {ModItem(i, c) : i \in {"root", "other"}, c \in {None, Some(<<>>), Some(d)}}

TypeDatabase(allow, excl) == [allowlist |-> allow, exclusions |-> excl]

\* any top-level shape around one small declaration list
InitShape ==
    /\ \E d \in {<<Decl("A", {"c_int"})>>} :
          input \in {None} \cup {Some(s) : s \in SeqsUpTo(TopItems(d), MaxItems)}
    /\ type_database \in {TypeDatabase(a, {}) : a \in {{}, {"A"}}}

\* the expected shape around any declaration graph and any configuration
InitGraph ==
    /\ input \in {Some(<<ModItem("root", Some(d))>>) : d \in GraphDecls}
    /\ type_database \in
          {TypeDatabase(a, e) : a \in SUBSET (ApiNames \cup {GhostName}),
                                e \in SUBSET ApiNames}

Init ==
    /\ (InitShape \/ InitGraph)
    /\ bindgen_mod = [ident |-> "bindgen", content |-> input]
    /\ pc = "convert"
    /\ items_to_process = <<>>
    /\ items_in_root = <<>>
    /\ byvalue_checker = FALSE
    /\ parse_results = [apis |-> {}]
    /\ analyzed_apis = {}
    /\ cpp = NotProduced
    /\ rs = NotProduced
    /\ result = Running
    /\ trace = <<>>

----------------------------------------------------------------------------
(* convert, mod.rs:77-135 *)

\* absent content taken for an empty item list
ContentCheck_NoneAsEmpty ==
    /\ pc = "convert"
    /\ trace' = Append(trace, Entry("content_check", "Ok"))
    /\ items_to_process' = bindgen_mod.content.items
    /\ bindgen_mod' = [bindgen_mod EXCEPT !.content = Some(<<>>)]
    /\ pc' = "find_items_in_root"
    /\ UNCHANGED <<type_database, input, items_in_root, byvalue_checker,
                   parse_results, analyzed_apis, cpp, rs, result>>

\* mod.rs:84-89: the match on bindgen_mod.content and the drain of its items
ContentCheck ==
    /\ pc = "convert"
    /\ IF ~bindgen_mod.content.some
       THEN /\ trace' = Append(trace, Entry("content_check", "NoContent"))
            /\ result' = Err("NoContent")
            /\ pc' = "returned"
            /\ UNCHANGED <<bindgen_mod, items_to_process>>
       ELSE /\ trace' = Append(trace, Entry("content_check", "Ok"))
            /\ items_to_process' = bindgen_mod.content.items
            /\ bindgen_mod' = [bindgen_mod EXCEPT !.content = Some(<<>>)]
            /\ pc' = "find_items_in_root"
            /\ UNCHANGED result
    /\ UNCHANGED <<type_database, input, items_in_root, byvalue_checker,
                   parse_results, analyzed_apis, cpp, rs>>

\* mod.rs:91: Self::find_items_in_root(items_to_process)?
FindItemsInRoot ==
    /\ pc = "find_items_in_root"
    /\ LET r == find_items_in_root(items_to_process) IN
       /\ items_to_process' = <<>>
       /\ IF r.tag = "Ok"
          THEN /\ trace' = Append(trace, Entry("find_items_in_root", "Ok"))
               /\ items_in_root' = r.val
               /\ pc' = "identify_byvalue_safe_types"
               /\ UNCHANGED result
          ELSE IF r.tag = "Err"
          THEN /\ trace' = Append(trace, Entry("find_items_in_root", r.err))
               /\ result' = r
               /\ pc' = "returned"
               /\ UNCHANGED items_in_root
          ELSE /\ trace' = Append(trace, Entry("find_items_in_root", "Panic"))
               /\ result' = Panic
               /\ pc' = "panicked"
               /\ UNCHANGED items_in_root
    /\ UNCHANGED <<bindgen_mod, type_database, input, byvalue_checker,
                   parse_results, analyzed_apis, cpp, rs>>

\* mod.rs:94-95: identify_byvalue_safe_types(&items_in_root, &self.type_database)?
IdentifyByvalueSafeTypes ==
    /\ pc = "identify_byvalue_safe_types"
    /\ \E outcome \in {"Ok", "SafetyAssertionConflict"} :
          /\ trace' = Append(trace, Entry("identify_byvalue_safe_types", outcome))
          /\ IF outcome = "Ok"
             THEN /\ byvalue_checker' = TRUE
                  /\ pc' = "convert_items"
                  /\ UNCHANGED result
             ELSE /\ result' = Err(outcome)
                  /\ pc' = "returned"
                  /\ UNCHANGED byvalue_checker
    /\ UNCHANGED <<bindgen_mod, type_database, input, items_to_process, items_in_root,
                   parse_results, analyzed_apis, cpp, rs>>

\* mod.rs:97-100: parser.convert_items(items_in_root, exclude_utilities)?
ConvertItems ==
    /\ pc = "convert_items"
    /\ \E outcome \in {"Ok", "DuplicateDeclarationConflict"} :
          /\ trace' = Append(trace, Entry("convert_items", outcome))
          /\ IF outcome = "Ok"
             THEN /\ parse_results' = [apis |-> convert_items(items_in_root)]
                  /\ items_in_root' = <<>>
                  /\ pc' = "analyze_pod_apis"
                  /\ UNCHANGED result
             ELSE /\ result' = Err(outcome)
                  /\ pc' = "returned"
                  /\ UNCHANGED <<parse_results, items_in_root>>
    /\ UNCHANGED <<bindgen_mod, type_database, input, items_to_process,
                   byvalue_checker, analyzed_apis, cpp, rs>>

\* the error of analyze_pod_apis ignored instead of propagated
AnalyzePodApis_NoPropagate ==
    /\ pc = "analyze_pod_apis"
    /\ \E outcome \in {"Ok", "SafetyAssertionConflict"} :
          /\ trace' = Append(trace, Entry("analyze_pod_apis", outcome))
          /\ analyzed_apis' = analyze_pod_apis(parse_results.apis)
          /\ pc' = "analyze_functions"
          /\ UNCHANGED result
    /\ UNCHANGED <<bindgen_mod, type_database, input, items_to_process, items_in_root,
                   byvalue_checker, parse_results, cpp, rs>>

\* the garbage collector called before the function analyzer
AnalyzePodApis_ThenFilter ==
    /\ pc = "analyze_pod_apis"
    /\ \E outcome \in {"Ok", "SafetyAssertionConflict"} :
          /\ trace' = Append(trace, Entry("analyze_pod_apis", outcome))
          /\ IF outcome = "Ok"
             THEN /\ analyzed_apis' = analyze_pod_apis(parse_results.apis)
                  /\ pc' = "filter_apis_by_following_edges_from_allowlist"
                  /\ UNCHANGED result
             ELSE /\ result' = Err(outcome)
                  /\ pc' = "returned"
                  /\ UNCHANGED analyzed_apis
    /\ UNCHANGED <<bindgen_mod, type_database, input, items_to_process, items_in_root,
                   byvalue_checker, parse_results, cpp, rs>>

\* mod.rs:104-105: analyze_pod_apis(parse_results.apis, &byvalue_checker, ..)?
AnalyzePodApis ==
    /\ pc = "analyze_pod_apis"
    /\ \E outcome \in {"Ok", "SafetyAssertionConflict"} :
          /\ trace' = Append(trace, Entry("analyze_pod_apis", outcome))
          /\ IF outcome = "Ok"
             THEN /\ analyzed_apis' = analyze_pod_apis(parse_results.apis)
                  /\ pc' = "analyze_functions"
                  /\ UNCHANGED result
             ELSE /\ result' = Err(outcome)
                  /\ pc' = "returned"
                  /\ UNCHANGED analyzed_apis
    /\ UNCHANGED <<bindgen_mod, type_database, input, items_to_process, items_in_root,
                   byvalue_checker, parse_results, cpp, rs>>

\* mod.rs:109-115: FnAnalyzer::analyze_functions(analyzed_apis, ..)?
AnalyzeFunctions ==
    /\ pc = "analyze_functions"
    /\ \E outcome \in {"Ok", "UnknownType", "UnsupportedSignature"} :
          /\ trace' = Append(trace, Entry("analyze_functions", outcome))
          /\ IF outcome = "Ok"
             THEN /\ analyzed_apis' = analyze_functions(analyzed_apis)
                  /\ pc' = "filter_apis_by_following_edges_from_allowlist"
                  /\ UNCHANGED result
             ELSE /\ result' = Err(outcome)
                  /\ pc' = "returned"
                  /\ UNCHANGED analyzed_apis
    /\ UNCHANGED <<bindgen_mod, type_database, input, items_to_process, items_in_root,
                   byvalue_checker, parse_results, cpp, rs>>

\* the analysed set handed on without garbage collection
FilterApis_Skipped ==
    /\ pc = "filter_apis_by_following_edges_from_allowlist"
    /\ trace' = Append(trace, Entry("filter_apis_by_following_edges_from_allowlist", "Ok"))
    /\ pc' = "append_ctype_information"
    /\ UNCHANGED <<bindgen_mod, type_database, input, items_to_process, items_in_root,
                   byvalue_checker, parse_results, analyzed_apis, cpp, rs, result>>

\* mod.rs:116-120: the call has no `?`: its value is the retained set
FilterApis ==
    /\ pc = "filter_apis_by_following_edges_from_allowlist"
    /\ trace' = Append(trace, Entry("filter_apis_by_following_edges_from_allowlist", "Ok"))
    /\ analyzed_apis' =
          filter_apis_by_following_edges_from_allowlist(analyzed_apis, type_database)
    /\ pc' = "append_ctype_information"
    /\ UNCHANGED <<bindgen_mod, type_database, input, items_to_process, items_in_root,
                   byvalue_checker, parse_results, cpp, rs, result>>

\* mod.rs:121-122
AppendCtypeInformation ==
    /\ pc = "append_ctype_information"
    /\ trace' = Append(trace, Entry("append_ctype_information", "Ok"))
    /\ analyzed_apis' = append_ctype_information(analyzed_apis)
    /\ pc' = "generate_cpp_code"
    /\ UNCHANGED <<bindgen_mod, type_database, input, items_to_process, items_in_root,
                   byvalue_checker, parse_results, cpp, rs, result>>

\* mod.rs:125
GenerateCppCode ==
    /\ pc = "generate_cpp_code"
    /\ trace' = Append(trace, Entry("generate_cpp_code", "Ok"))
    /\ cpp' = generate_cpp_code(analyzed_apis)
    /\ pc' = "generate_rs_code"
    /\ UNCHANGED <<bindgen_mod, type_database, input, items_to_process, items_in_root,
                   byvalue_checker, parse_results, analyzed_apis, rs, result>>

\* mod.rs:126-132: generate_rs_code consumes analyzed_apis; Ok(CodegenResults { rs, cpp })
GenerateRsCode ==
    /\ pc = "generate_rs_code"
    /\ trace' = Append(trace, Entry("generate_rs_code", "Ok"))
    /\ rs' = generate_rs_code(analyzed_apis)
    /\ analyzed_apis' = {}
    /\ result' = Ok(<<>>)
    /\ pc' = "returned"
    /\ UNCHANGED <<bindgen_mod, type_database, input, items_to_process, items_in_root,
                   byvalue_checker, parse_results, cpp>>

Next ==
    \/ ContentCheck
    \/ FindItemsInRoot
    \/ IdentifyByvalueSafeTypes
    \/ ConvertItems
    \/ AnalyzePodApis
    \/ AnalyzeFunctions
    \/ FilterApis
    \/ AppendCtypeInformation
    \/ GenerateCppCode
    \/ GenerateRsCode

Spec == Init /\ [][Next]_vars

----------------------------------------------------------------------------
(* Properties *)

Errors ==
    {"NoContent", "UnexpectedOuterItem", "SafetyAssertionConflict",
     "DuplicateDeclarationConflict", "UnknownType", "UnsupportedSignature",
     "UnsatisfiableRoot"}

NothingProduced == rs = NotProduced /\ cpp = NotProduced

\* the outcome of find_items_in_root, once it has run
FindOutcome == trace[2].outcome

\* a root mod that has no body
Bodiless(item) == item.kind = "Mod" /\ item.ident = "root" /\ ~item.content.some

\* every item before position i is a root mod without a body
OnlyBodilessBefore(items, i) == \A j \in 1..(i - 1) : Bodiless(items[j])

\* the first item that is not a bodiless root mod is a mod not named root
MalformedRoot(items) ==
    \E i \in 1..Len(items) :
        /\ OnlyBodilessBefore(items, i)
        /\ items[i].kind = "Mod" /\ items[i].ident # "root"

\* C1: a stage that returned an error is the last stage executed, convert has
\* returned exactly that error, and neither rs nor cpp was produced.
C1_FailFast ==
    \A i \in 1..Len(trace) :
        trace[i].outcome \in Errors =>
            /\ i = Len(trace)
            /\ pc = "returned"
            /\ result = Err(trace[i].outcome)
            /\ NothingProduced

C1_Witness ==
    /\ result = Err("UnsupportedSignature")
    /\ Len(trace) = 6
    /\ \A i \in 1..5 : trace[i].outcome = "Ok"

\* C2 (as claimed): find_items_in_root fails with UnexpectedOuterItem for every list
\* of more than one item or holding an item that is not a mod, and succeeds only
\* for the empty list or a list of exactly one mod.
C2_Original ==
    Ran("find_items_in_root") =>
        LET items == input.items IN
        /\ (Len(items) > 1 \/ \E i \in 1..Len(items) : items[i].kind # "Mod")
              => FindOutcome = "UnexpectedOuterItem"
        /\ FindOutcome = "Ok"
              => (items = <<>> \/ (Len(items) = 1 /\ items[1].kind = "Mod"))

\* C3 (as claimed): when convert has returned after the garbage collector ran, every
\* allow-list root is in the output or the result is the UnsatisfiableRoot error.
C3_Original ==
    (pc = "returned" /\ Ran("filter_apis_by_following_edges_from_allowlist")) =>
        \/ result = Err("UnsatisfiableRoot")
        \/ type_database.allowlist \subseteq rs.items

\* C4: with the content of the input mod absent, convert returns NoContent after
\* the content check alone; no stage ran and nothing was computed.
C4_NoContent ==
    (~input.some /\ pc # "convert") =>
        /\ result = Err("NoContent")
        /\ pc = "returned"
        /\ trace = <<Entry("content_check", "NoContent")>>
        /\ items_in_root = <<>>
        /\ byvalue_checker = FALSE
        /\ parse_results.apis = {}
        /\ analyzed_apis = {}
        /\ NothingProduced

C4_Witness == ~input.some /\ pc = "returned" /\ result.tag = "Err"

\* C5: with zero top-level items find_items_in_root returns Ok with the empty list,
\* convert goes on to the next stages, and what is parsed is the empty Api set.
C5_EmptyIsNotAnError ==
    (input.some /\ input.items = <<>> /\ Ran("find_items_in_root")) =>
        /\ FindOutcome = "Ok"
        /\ items_in_root = <<>>
        /\ pc # "panicked"
        /\ pc \in {"returned", "identify_byvalue_safe_types"} \/ Ran("identify_byvalue_safe_types")
        /\ (pc = "returned" => Ran("identify_byvalue_safe_types"))
        /\ parse_results.apis = {}
        /\ analyzed_apis = {}

C5_Witness ==
    /\ input.some /\ input.items = <<>>
    /\ pc = "returned" /\ result.tag = "Ok"
    /\ Len(trace) = Len(StageOrder)
    /\ rs = Produced(TRUE, {})

\* C6: once the garbage collector has run, every dependency edge of a retained Api
\* that points to a parsed Api points to a retained Api.
C6_ClosedUnderDependency ==
    Ran("filter_apis_by_following_edges_from_allowlist") =>
        \A a \in analyzed_apis : \A d \in a.deps :
            d \in Names(parse_results.apis) => d \in Names(analyzed_apis)

\* an exclusion dropped an allow-listed dependent that lies on a cycle with the
\* excluded node, and another Api was retained
C6_Witness ==
    /\ pc = "append_ctype_information"
    /\ \E a \in parse_results.apis :
          /\ a.name \in type_database.allowlist
          /\ a.name \notin type_database.exclusions
          /\ a.deps \cap type_database.exclusions # {}
          /\ a.name \notin Names(analyzed_apis)
    /\ analyzed_apis # {}
    /\ \E x, y \in parse_results.apis :
          /\ x.name \in y.deps /\ y.name \in x.deps
          /\ x.name \in type_database.exclusions
          /\ y.name \in type_database.allowlist

\* a dependency edge of the parsed declarations
Edge(x, y) == \E a \in parse_results.apis : a.name = x /\ y \in a.deps

RECURSIVE PathWithin(_, _, _)
PathWithin(x, y, n) ==
    \/ x = y
    \/ n > 0 /\ \E z \in ApiNames \cup CTypes : Edge(x, z) /\ PathWithin(z, y, n - 1)

\* y is reachable from an allow-list root along dependency edges
ReachableFromRoot(y) ==
    \E r \in type_database.allowlist : PathWithin(r, y, Cardinality(parse_results.apis))

\* C7: every Api the code generators consume, synthetic ctypes included, is
\* reachable from an allow-list root.
C7_OutputReachable ==
    /\ pc \in {"generate_cpp_code", "generate_rs_code"}
          => \A n \in Names(analyzed_apis) : ReachableFromRoot(n)
    /\ \A n \in rs.items \cup cpp.items : ReachableFromRoot(n)

\* a declared, unrelated C is absent from an output that holds a synthetic ctype
C7_Witness ==
    /\ pc = "returned" /\ result.tag = "Ok"
    /\ "C" \in Names(parse_results.apis)
    /\ "C" \notin rs.items
    /\ "c_int" \in rs.items
    /\ "A" \in rs.items

IsPrefix(s, t) == Len(s) <= Len(t) /\ \A i \in 1..Len(s) : s[i] = t[i]

StagesOf(t) == [i \in 1..Len(t) |-> t[i].stage]

\* C8: the stages executed are always a prefix of the one fixed order; the function
\* analyzer starts only with every safety tag final and POD analysis successful; and
\* from then on no step changes the safety tag of an Api.
C8_StageOrder ==
    [][ /\ IsPrefix(StagesOf(trace'), StageOrder)
        /\ pc' = "analyze_functions" =>
              /\ trace'[Len(trace')] = Entry("analyze_pod_apis", "Ok")
              /\ Names(analyzed_apis') = Names(parse_results'.apis)
              /\ \A a \in analyzed_apis' : a.safety # "PendingAnalysis"
        /\ (pc = "analyze_functions" \/ Ran("analyze_functions")) =>
              \A a \in analyzed_apis : \A b \in analyzed_apis' :
                  a.name = b.name => a.safety = b.safety
      ]_vars

C8_Witness ==
    /\ pc = "generate_cpp_code"
    /\ StagesOf(trace) = SubSeq(StageOrder, 1, 8)
    /\ \E a, b \in analyzed_apis :
          a.safety = "ByValueSafe" /\ b.safety = "RequiresIndirection"

\* C9 (as claimed): a top-level mod that is not the root mod makes convert return a
\* recoverable error; it never panics.
C9_Original ==
    (Ran("find_items_in_root") /\ MalformedRoot(input.items)) =>
        (pc = "returned" /\ result = Err("UnexpectedOuterItem"))

\* C9 (amended): find_items_in_root panics exactly when the first item that is not
\* a bodiless root mod is a mod not named root; convert then returns nothing.
C9_PanicsOnMalformedRoot ==
    Ran("find_items_in_root") =>
        /\ (FindOutcome = "Panic") <=> MalformedRoot(input.items)
        /\ (pc = "panicked") <=> (FindOutcome = "Panic")
        /\ pc = "panicked" => (result = Panic /\ Len(trace) = 2 /\ NothingProduced)

C9_Witness ==
    /\ pc = "panicked"
    /\ input.items = <<ModItem("other", Some(<<>>))>>

\* C10: a root mod without a body is skipped: the outcome is decided by the first
\* item after the bodiless root mods, a list of bodiless root mods alone yields
\* Ok with the empty list, and find_items_in_root never reports NoContent.
C10_BodilessRootSkipped ==
    Ran("find_items_in_root") =>
        LET items == input.items IN
        /\ FindOutcome # "NoContent"
        /\ (items # <<>> /\ \A i \in 1..Len(items) : Bodiless(items[i])) =>
              /\ FindOutcome = "Ok"
              /\ items_in_root = <<>>
        /\ \A i \in 2..Len(items) :
              (OnlyBodilessBefore(items, i) /\ ~Bodiless(items[i])) =>
                  /\ items[i].kind # "Mod" => FindOutcome = "UnexpectedOuterItem"
                  /\ (items[i].kind = "Mod" /\ items[i].ident # "root")
                        => FindOutcome = "Panic"
                  /\ (items[i].kind = "Mod" /\ items[i].ident = "root") =>
                        /\ FindOutcome = "Ok"
                        /\ pc = "identify_byvalue_safe_types"
                              => items_in_root = items[i].content.items

C10_Witness ==
    /\ input.items = <<ModItem("root", None)>>
    /\ pc = "identify_byvalue_safe_types"
    /\ FindOutcome = "Ok"
    /\ items_in_root = <<>>

====
